---------------------------- MODULE Spec2Model ----------------------------
(***************************************************************************)
(* Model of P2_Deployment.py, the Streamlit financial dashboard.           *)
(*                                                                         *)
(* The script is re-executed top to bottom on every widget interaction.    *)
(* One action models one execution of the whole script: the (cached)       *)
(* load_data call, the sidebar, and the four tabs, up to the first         *)
(* uncaught exception.                                                     *)
(*                                                                         *)
(* Cells.  A cell read by pandas is either missing (NaN / NaT / None) or   *)
(* holds a value.  A missing cell is the empty tuple << >>, a cell with    *)
(* value v is the one-element tuple <<v>>.  Equality of cells follows      *)
(* pandas: a missing cell is equal to nothing, not even to itself (Eq).    *)
(* Metric columns are modelled by their presence in the schema only; the   *)
(* percentage formatting of tab 4 is recorded per table as the set of      *)
(* columns that hold formatted strings.                                    *)
(***************************************************************************)
EXTENDS Integers, Sequences, FiniteSets, TLC

(***************************************************************************)
(* Bounds of the model.                                                    *)
(***************************************************************************)
\* The most rows of a file of Spec and SpecCompany.
MaxRows == 2

\* The most rows of a file of SpecSector.
MaxSectorRows == 3

(***************************************************************************)
(* Generic helpers.                                                        *)
(***************************************************************************)
NaN == << >>

IsNa(x) == x = NaN

\* pandas ==: NaN == anything is False; None (no selection) equals nothing.
Eq(a, b) == ~IsNa(a) /\ ~IsNa(b) /\ a = b

Range(s) == {s[i] : i \in DOMAIN s}

\* All orderings (permutations, as sequences) of a finite set.
Orderings(S) ==
    {q \in [1..Cardinality(S) -> S] :
        \A i, j \in 1..Cardinality(S) : i # j => q[i] # q[j]}

\* All sequences over D of length 0..n.
SeqsUpTo(D, n) == UNION {[1..k -> D] : k \in 0..n}

\* Lexicographic order of the strings that occur as cell values.
LexOrder == <<"2020-12-31", "2021-12-31", "AAA", "BBB", "Energy", "Tech">>

Rank(s) == CHOOSE i \in DOMAIN LexOrder : LexOrder[i] = s

\* Python < on two present string cells.
StrLt(a, b) == Rank(a[1]) < Rank(b[1])

\* Python < on two present numeric cells.
NumLt(a, b) == a[1] < b[1]

\* The first-appearance order of the values of a sequence (pandas unique()).
\* NaN is one value.
RECURSIVE Unique(_)
Unique(s) ==
    IF s = << >> THEN << >>
    ELSE LET init == Unique(SubSeq(s, 1, Len(s) - 1))
             x == s[Len(s)]
         IN IF x \in Range(init) THEN init ELSE Append(init, x)

\* [col[1], col[2], ...] of a sequence of records.
Column(rows, col) == [i \in DOMAIN rows |-> rows[i][col]]

\* The first element of seq that is not in S, as a one-element or empty tuple.
RECURSIVE FirstMissing(_, _)
FirstMissing(seq, S) ==
    IF seq = << >> THEN << >>
    ELSE IF Head(seq) \notin S THEN <<Head(seq)>>
    ELSE FirstMissing(Tail(seq), S)

(***************************************************************************)
(* Column names used by the script.                                        *)
(***************************************************************************)
margin_metrics == <<"Gross_Margin", "Operating_Margin", "Net_Margin", "EBITDA_Margin">>

ratio_fields == <<"ROE", "ROA", "Asset_Turnover", "Interest_Coverage", "Debt_to_Equity">>

wc_metrics == <<"Inventory_Days", "Receivables_Days", "Payables_Days">>

roa_fields == <<"ROA", "Predicted_ROA">>

year_agg_fields == <<"ROA", "ROE", "Net_Margin", "Gross_Margin">>

comparison_options == <<"ROA", "Net_Margin", "Debt_to_Equity", "Current_Ratio">>

sector_agg_fields == <<"Sector", "ROA", "ROE", "Net_Margin">>

radar_fields ==
    <<"ROA", "ROE", "Net_Margin", "Gross_Margin", "Current_Ratio", "Asset_Turnover">>

scatter_fields ==
    <<"Debt_to_Equity", "ROA", "Sector", "Current_Ratio", "Ticker", "Name", "Year_display">>

filter_options == <<"All Data", "Selected Company", "Selected Sector", "Selected Cluster">>

pct_cols ==
    <<"Gross_Margin", "Operating_Margin", "Net_Margin", "EBITDA_Margin",
      "ROE", "ROA", "Predicted_ROA">>

cols_to_show ==
    <<"Ticker", "Name", "Sector", "Industry", "Year_display",
      "Gross_Margin", "Operating_Margin", "Net_Margin", "ROA", "ROE",
      "Cluster", "Predicted_ROA">>

stats_options == <<"ROA", "ROE", "Net_Margin", "Gross_Margin", "Debt_to_Equity">>

\* The columns of clustered_firms_clean.csv that the script names.
CsvColumns ==
    {"Ticker", "Name", "Sector", "Industry", "Year", "Cluster"}
    \cup Range(margin_metrics) \cup Range(ratio_fields) \cup Range(wc_metrics)
    \cup Range(roa_fields) \cup Range(comparison_options) \cup Range(radar_fields)

(***************************************************************************)
(* The CSV resource.  Raw cells are text; an empty cell is "".             *)
(***************************************************************************)
Missing == [exists |-> FALSE, columns |-> {}, rows |-> << >>]

TickerCells == {"AAA", "BBB", ""}
SectorCells == {"Tech", "Energy", ""}
ClusterCells == {"0", "1", ""}
YearCells == {"2020-12-31", "2021-12-31", "", "n/a"}

RawRow(t, s, c, y) == [Ticker |-> t, Sector |-> s, Cluster |-> c, Year |-> y]

\* A cell of a column the file does not have is not there at all.
Blank(row, cols) ==
    [f \in DOMAIN row |-> IF f \in cols THEN row[f] ELSE ""]

CsvFile(cols, rows) ==
    [exists |-> TRUE, columns |-> cols,
     rows |-> [i \in DOMAIN rows |-> Blank(rows[i], cols)]]

\* Rows of three firms: one with two years, one with one year, one whose
\* cells are all empty.
SampleRows ==
    {RawRow("AAA", "Tech", "0", "2020-12-31"),
     RawRow("AAA", "Tech", "1", "2021-12-31"),
     RawRow("BBB", "Energy", "1", "2021-12-31"),
     RawRow("", "", "", "")}

\* (ticker, year) is unique within the table (the data model's invariant).
UniqueFirmYears(rows) ==
    \A i, j \in DOMAIN rows :
        i # j => <<rows[i].Ticker, rows[i].Year>> # <<rows[j].Ticker, rows[j].Year>>

\* The tables over D of at most n rows that keep (ticker, year) unique.
Tables(D, n) == {r \in SeqsUpTo(D, n) : UniqueFirmYears(r)}

\* Rows of the files whose schema lacks a column.
PlainRows == {RawRow(t, "Tech", "0", "2020-12-31") : t \in {"AAA", ""}}

\* Rows in which the company columns vary.
CompanyRows == {RawRow(t, "Tech", "0", y) : t \in TickerCells, y \in YearCells}

\* The firm-years of the rows of a file whose sector and cluster columns
\* vary: (ticker, year) is unique up to four rows.
FirmYears ==
    <<[Ticker |-> "AAA", Year |-> "2020-12-31"], [Ticker |-> "BBB", Year |-> "2020-12-31"],
      [Ticker |-> "AAA", Year |-> "2021-12-31"], [Ticker |-> "BBB", Year |-> "2021-12-31"]>>

FirmYear(i) == FirmYears[((i - 1) % Len(FirmYears)) + 1]

\* Rows in which the sector and cluster columns vary.
SectorRows(labels) ==
    [i \in DOMAIN labels |->
        RawRow(FirmYear(i).Ticker, labels[i][1], labels[i][2], FirmYear(i).Year)]

\* The files of Spec: no file, the sample firms, and files that lack a column.
Files ==
    {Missing}
    \cup {CsvFile(CsvColumns, r) : r \in Tables(SampleRows, MaxRows)}
    \cup {CsvFile(CsvColumns \ {c}, r) : c \in CsvColumns, r \in Tables(PlainRows, MaxRows)}

\* The files of SpecCompany; (ticker, year) may repeat in them.
CompanyFiles == {CsvFile(CsvColumns, r) : r \in SeqsUpTo(CompanyRows, MaxRows)}

\* The files of SpecSector.
SectorFiles ==
    {CsvFile(CsvColumns, SectorRows(l)) :
        l \in SeqsUpTo((SectorCells \ {""}) \X ClusterCells, MaxSectorRows)}

(***************************************************************************)
(* Tables (DataFrames).                                                    *)
(***************************************************************************)
NoTable == [columns |-> {}, rows |-> << >>, fmt |-> {}]

NoRow ==
    [idx |-> -1, Ticker |-> NaN, Sector |-> NaN, Cluster |-> NaN, Year |-> NaN,
     Year_str |-> NaN, Year_display |-> NaN]

NoException == [type |-> "none", key |-> ""]

Raised(type, key) == [type |-> type, key |-> key]

\* read_csv: an empty text cell is NaN.
StrCell(text) == IF text = "" THEN NaN ELSE <<text>>

\* read_csv: a numeric column.
NumCell(text) ==
    CASE text = "" -> NaN
      [] text = "0" -> <<0>>
      [] text = "1" -> <<1>>

read_csv(f) ==
    [columns |-> f.columns,
     rows |-> [i \in DOMAIN f.rows |->
                 [idx |-> i - 1,
                  Ticker |-> StrCell(f.rows[i].Ticker),
                  Sector |-> StrCell(f.rows[i].Sector),
                  Cluster |-> NumCell(f.rows[i].Cluster),
                  Year |-> StrCell(f.rows[i].Year),
                  Year_str |-> NaN,
                  Year_display |-> NaN]],
     fmt |-> {}]

\* A date is the number yyyymmdd.
\* strptime(text, '%Y-%m-%d') succeeds.
Parsable(cell) == IsNa(cell) \/ cell[1] \in {"2020-12-31", "2021-12-31"}

\* pd.to_datetime of one cell: NaN becomes NaT.
to_datetime(cell) ==
    CASE IsNa(cell) -> NaN
      [] cell[1] = "2020-12-31" -> <<20201231>>
      [] cell[1] = "2021-12-31" -> <<20211231>>

\* Timestamp.strftime('%Y-%m-%d'); NaT becomes NaN.
strftime(cell) ==
    CASE IsNa(cell) -> NaN
      [] cell[1] = 20201231 -> <<"2020-12-31">>
      [] cell[1] = 20211231 -> <<"2021-12-31">>

NotFoundMessage == "File not found. Please ensure 'clustered_firms_clean.csv' is uploaded."

UploadMessage == "Please upload 'clustered_firms_clean.csv' to use this dashboard."

\* Lines 22-24: read the file that exists and parse its Year column.  The
\* KeyError and the ValueError are not caught.
ReadAndParse(f) ==
    IF "Year" \notin f.columns
    THEN [outcome |-> "raised", df |-> NoTable,
          exception |-> Raised("KeyError", "Year"), messages |-> << >>]
    ELSE IF \E i \in DOMAIN f.rows : ~Parsable(StrCell(f.rows[i].Year))
    THEN [outcome |-> "raised", df |-> NoTable,
          exception |-> Raised("ValueError", "Year"), messages |-> << >>]
    ELSE LET t == read_csv(f)
         IN [outcome |-> "table",
             df |-> [t EXCEPT !.rows =
                        [i \in DOMAIN t.rows |->
                            [t.rows[i] EXCEPT !.Year = to_datetime(@)]]],
             exception |-> NoException, messages |-> << >>]

\* load_data that answers a missing file with an empty table.
load_data_EmptyOnMissing(f) ==
    IF ~f.exists
    THEN [outcome |-> "table", df |-> [NoTable EXCEPT !.columns = CsvColumns],
          exception |-> NoException, messages |-> <<NotFoundMessage>>]
    ELSE ReadAndParse(f)

\* load_data(): the table, or None with the error message when the file is
\* missing (only FileNotFoundError is caught).
load_data(f) ==
    IF ~f.exists
    THEN [outcome |-> "none", df |-> NoTable, exception |-> NoException,
          messages |-> <<NotFoundMessage>>]
    ELSE ReadAndParse(f)

(***************************************************************************)
(* pandas operations.  A run of the script keeps its DataFrames in objs,   *)
(* a sequence of tables; a variable of the script is a position in objs,   *)
(* so that two variables naming one object see each other's writes.        *)
(***************************************************************************)
\* FilterRows with a comparison under which a missing cell matches.
FilterRowsKeepNa(t, col, v) ==
    [t EXCEPT !.rows = SelectSeq(t.rows, LAMBDA row : IsNa(row[col]) \/ Eq(row[col], v))]

\* t[t[col] == v]: the rows whose cell equals v, in the order of t.
FilterRows(t, col, v) ==
    [t EXCEPT !.rows = SelectSeq(t.rows, LAMBDA row : Eq(row[col], v))]

\* Getitem that hands back the indexed object itself when every row matches.
GetitemView(objs, ref, col, v) ==
    IF \A i \in DOMAIN objs[ref].rows : Eq(objs[ref].rows[i][col], v)
    THEN [objs |-> objs, ref |-> ref]
    ELSE [objs |-> Append(objs, FilterRows(objs[ref], col, v)), ref |-> Len(objs) + 1]

\* df[mask]: boolean indexing allocates a new DataFrame.
Getitem(objs, ref, col, v) ==
    [objs |-> Append(objs, FilterRows(objs[ref], col, v)), ref |-> Len(objs) + 1]

\* df.copy()
Copy(objs, ref) == [objs |-> Append(objs, objs[ref]), ref |-> Len(objs) + 1]

\* df[col] = df['Year'].dt.strftime(...): writes the object df names.
SetYearColumn(objs, ref, col) ==
    LET t == objs[ref]
    IN [objs EXCEPT ![ref] =
           [columns |-> t.columns \cup {col},
            rows |-> [i \in DOMAIN t.rows |->
                         [t.rows[i] EXCEPT ![col] = strftime(t.rows[i].Year)]],
            fmt |-> t.fmt]]

\* df[col] = df[col].apply(lambda x: f"{x:.2%}"): writes the object df names.
SetPercent(objs, ref, col) == [objs EXCEPT ![ref].fmt = @ \cup {col}]

\* The orders sort_values('Year') can give the rows: Year ascending, rows
\* with NaT last in their original order; the default sort kind is not
\* stable, so rows of equal Year come in any order.
SortValuesYear(rows) ==
    LET dated == SelectSeq(rows, LAMBDA row : ~IsNa(row.Year))
        nat == SelectSeq(rows, LAMBDA row : IsNa(row.Year))
    IN {q \o nat : q \in {p \in Orderings(Range(dated)) :
            \A i, j \in DOMAIN p : i < j => p[i].Year[1] <= p[j].Year[1]}}

\* sorted(values) of string cells; None when a NaN (a float) meets a str.
MixedTypes(values) == NaN \in Range(values) /\ Len(values) > 1

SortedStr(values) ==
    CHOOSE q \in Orderings(Range(values)) :
        \A i, j \in DOMAIN q : i < j => (IsNa(q[i]) \/ IsNa(q[j]) \/ StrLt(q[i], q[j]))

\* sorted(values) of numeric cells: ascending; with a NaN among them every
\* comparison with it is False and the outcome is whatever the sort makes of
\* an inconsistent order.
SortedNum(values) ==
    IF NaN \in Range(values) THEN Orderings(Range(values))
    ELSE {q \in Orderings(Range(values)) :
            \A i, j \in DOMAIN q : i < j => NumLt(q[i], q[j])}

\* The rows of each group of groupby(col): keys ascending, NaN keys dropped
\* (dropna defaults to True).
GroupBy(t, col, KeyLt(_, _)) ==
    LET keys == {k \in Range(Column(t.rows, col)) : ~IsNa(k)}
        order == CHOOSE q \in Orderings(keys) :
                     \A i, j \in DOMAIN q : i < j => KeyLt(q[i], q[j])
    IN [i \in DOMAIN order |->
           [key |-> order[i],
            rows |-> Column(FilterRows(t, col, order[i]).rows, "idx")]]

\* ValueCounts with the counts ascending.
ValueCountsAscending(t, col) ==
    LET keys == {k \in Range(Column(t.rows, col)) : ~IsNa(k)}
        Count(k) == Len(FilterRows(t, col, k).rows)
    IN {[i \in DOMAIN q |-> [Cluster |-> q[i], Count |-> Count(q[i])]] :
          q \in {p \in Orderings(keys) :
                   \A i, j \in DOMAIN p : i < j => Count(p[i]) <= Count(p[j])}}

\* The orders value_counts() can give: NaN dropped, Count descending, equal
\* counts in the order the (not stable) sort leaves them.
ValueCounts(t, col) ==
    LET keys == {k \in Range(Column(t.rows, col)) : ~IsNa(k)}
        Count(k) == Len(FilterRows(t, col, k).rows)
    IN {[i \in DOMAIN q |-> [Cluster |-> q[i], Count |-> Count(q[i])]] :
          q \in {p \in Orderings(keys) :
                   \A i, j \in DOMAIN p : i < j => Count(p[i]) >= Count(p[j])}}

(***************************************************************************)
(* One run of the script.  A run is a record r: the script's variables,    *)
(* the elements it has put on the page (shown), and the uncaught exception *)
(* that stopped it, if any.  prev is the state the previous run left (the  *)
(* session's widget state), trig the widget whose change caused this run.  *)
(***************************************************************************)
NoRun ==
    [status |-> "init", messages |-> << >>, exception |-> NoException, shown |-> {},
     objs |-> <<NoTable>>,
     tickers |-> << >>, sectors |-> << >>, clusters |-> << >>,
     selected_ticker |-> NaN, selected_sector |-> NaN, selected_cluster |-> NaN,
     company_ref |-> 0, latest_data |-> NoRow,
     sector_ref |-> 0, avg_by_year |-> << >>, cluster_counts |-> << >>,
     comparison_metric |-> "", fig_box |-> << >>,
     cluster_ref |-> 0, avg_by_sector |-> << >>,
     filter_option |-> "", display_ref |-> 0, display_cols |-> << >>,
     selected_metric |-> ""]

NoTrigger == [widget |-> "", value |-> ""]

\* The value a widget returns: the value just chosen, else the value the
\* session holds for it when the previous run showed it, else its default.
Widget(key, held, default, prev, trig) ==
    IF trig.widget = key THEN trig.value
    ELSE IF key \in prev.shown THEN held
    ELSE default

\* Continue a run with F unless an exception has stopped it.
Bind(R, F(_)) == UNION {IF r.exception.type = "none" THEN F(r) ELSE {r} : r \in R}

\* Read the named columns of a table, then put an element on the page.
Reads(r, ref, fields, type, label) ==
    LET m == FirstMissing(fields, r.objs[ref].columns)
    IN IF r.exception.type # "none" THEN r
       ELSE IF m # << >> THEN [r EXCEPT !.exception = Raised(type, m[1])]
       ELSE [r EXCEPT !.shown = @ \cup {label}]

\* FirstOption of a selectbox made with index=None.
FirstOptionNone(options) == NaN

\* selectbox(options, index=0): None when there are no options.
FirstOption(options) == IF options = << >> THEN NaN ELSE options[1]

\* Lines 39-61: the unique-value lists and the three selectboxes.
Sidebar(r, prev, trig) ==
    LET df == r.objs[1]
        tk == Unique(Column(df.rows, "Ticker"))
        sc == Unique(Column(df.rows, "Sector"))
        cl == Unique(Column(df.rows, "Cluster"))
    IN IF "Ticker" \notin df.columns THEN {[r EXCEPT !.exception = Raised("KeyError", "Ticker")]}
       ELSE IF MixedTypes(tk) THEN {[r EXCEPT !.exception = Raised("TypeError", "Ticker")]}
       ELSE IF "Sector" \notin df.columns
       THEN {[r EXCEPT !.exception = Raised("KeyError", "Sector"), !.tickers = SortedStr(tk)]}
       ELSE IF MixedTypes(sc)
       THEN {[r EXCEPT !.exception = Raised("TypeError", "Sector"), !.tickers = SortedStr(tk)]}
       ELSE IF "Cluster" \notin df.columns
       THEN {[r EXCEPT !.exception = Raised("KeyError", "Cluster"),
                       !.tickers = SortedStr(tk), !.sectors = SortedStr(sc)]}
       ELSE {[r EXCEPT
                !.tickers = SortedStr(tk), !.sectors = SortedStr(sc), !.clusters = order,
                !.selected_ticker =
                    Widget("Select Company:", prev.selected_ticker,
                           FirstOption(SortedStr(tk)), prev, trig),
                !.selected_sector =
                    Widget("Select Sector:", prev.selected_sector,
                           FirstOption(SortedStr(sc)), prev, trig),
                !.selected_cluster =
                    Widget("Select Cluster:", prev.selected_cluster,
                           FirstOption(order), prev, trig),
                !.shown = @ \cup {"Filters", "Select Company:", "Select Sector:",
                                  "Select Cluster:"}] : order \in SortedNum(cl)}

\* df[df['Ticker'] == selected_ticker].sort_values('Year'): a new DataFrame
\* in each of the orders the sort can give.
SortValues(objs, ref) ==
    {[objs |-> Append(objs, [objs[ref] EXCEPT !.rows = q]), ref |-> Len(objs) + 1] :
        q \in SortValuesYear(objs[ref].rows)}

\* company_data.iloc[-1]
LatestRow(rows) == rows[Len(rows)]

\* Lines 71-175: tab 1, Company Analysis.
Tab1(r, prev, trig) ==
    LET g == Getitem(r.objs, 1, "Ticker", r.selected_ticker)
    IN {LET company_data == c.objs[c.ref]
            r1 == [r EXCEPT !.objs = c.objs, !.company_ref = c.ref]
            r2 == Reads(r1, c.ref, <<"Name">> \o margin_metrics, "KeyError", "fig1")
            r3 == IF r2.exception.type = "none"
                  THEN [r2 EXCEPT !.latest_data = LatestRow(company_data.rows)]
                  ELSE r2
            r4 == Reads(r3, c.ref, ratio_fields, "KeyError", "fig2")
            r5 == Reads(r4, c.ref, wc_metrics, "KeyError", "fig3")
        IN IF company_data.rows = << >>
           THEN [r1 EXCEPT !.shown = @ \cup {"No data available for selected company."}]
           ELSE Reads(r5, c.ref, roa_fields, "KeyError", "fig4")
        : c \in SortValues(g.objs, g.ref)}

\* Lines 251-258: one box trace per cluster of the sector.
BoxTraces(objs, ref) ==
    LET clusters_in_sector == Unique(Column(objs[ref].rows, "Cluster"))
    IN [i \in DOMAIN clusters_in_sector |->
          LET cluster_data == Getitem(objs, ref, "Cluster", clusters_in_sector[i])
          IN [name |-> clusters_in_sector[i],
              rows |-> Column(cluster_data.objs[cluster_data.ref].rows, "idx")]]

\* Lines 177-261: tab 2, Sector Analysis.
Tab2(r, prev, trig) ==
    LET g == Getitem(r.objs, 1, "Sector", r.selected_sector)
        objs == SetYearColumn(g.objs, g.ref, "Year_str")
        sector_data == objs[g.ref]
        r1 == [r EXCEPT !.objs = objs, !.sector_ref = g.ref]
        r2 == Reads(r1, g.ref, year_agg_fields, "KeyError", "fig")
        metric == Widget("sector_metric", prev.comparison_metric,
                         comparison_options[1], prev, trig)
    IN IF r2.exception.type # "none" THEN {r2}
       ELSE {LET r3 == [r2 EXCEPT !.avg_by_year = GroupBy(sector_data, "Year_str", StrLt),
                                  !.cluster_counts = counts,
                                  !.comparison_metric = metric,
                                  !.shown = @ \cup {"fig_pie", "sector_metric"}]
             IN IF sector_data.rows # << >> /\ metric \notin sector_data.columns
                THEN [r3 EXCEPT !.exception = Raised("KeyError", metric)]
                ELSE [r3 EXCEPT !.fig_box = BoxTraces(objs, g.ref),
                                !.shown = @ \cup {"fig_box"}]
             : counts \in ValueCounts(sector_data, "Cluster")}

\* Lines 263-336: tab 3, Cluster Analysis.
Tab3(r, prev, trig) ==
    LET g == Getitem(r.objs, 1, "Cluster", r.selected_cluster)
        r1 == [r EXCEPT !.objs = g.objs, !.cluster_ref = g.ref]
        r2 == Reads(r1, g.ref, sector_agg_fields, "KeyError", "fig_cluster")
        r3 == IF r2.exception.type = "none"
              THEN [r2 EXCEPT !.avg_by_sector = GroupBy(g.objs[g.ref], "Sector", StrLt)]
              ELSE r2
        r4 == Reads(r3, g.ref, radar_fields, "KeyError", "fig_radar")
        r5 == IF r4.exception.type = "none"
              THEN [r4 EXCEPT !.objs = SetYearColumn(@, g.ref, "Year_display")]
              ELSE r4
    IN {Reads(r5, g.ref, scatter_fields, "ValueError", "fig_scatter")}

\* Lines 368-373: format the percentage columns the table has.
RECURSIVE FormatPercent(_, _, _)
FormatPercent(objs, ref, cols) ==
    IF cols = << >> THEN objs
    ELSE FormatPercent(
             IF Head(cols) \in objs[ref].columns
             THEN SetPercent(objs, ref, Head(cols)) ELSE objs,
             ref, Tail(cols))

\* DisplayCols without the membership test.
DisplayColsAll(columns) == cols_to_show

\* Line 379: the columns to display that the table has.
DisplayCols(columns) == SelectSeq(cols_to_show, LAMBDA col : col \in columns)

\* Lines 401-407: the statistics of the selected metric are written.
StatsShown(metric, columns) == metric \in columns

\* Lines 338-417: tab 4, Data Explorer, and the sidebar's closing note.
Tab4(r, prev, trig) ==
    LET option == Widget("Filter by:", prev.filter_option, filter_options[1], prev, trig)
        d0 == CASE option = "Selected Company" ->
                     Getitem(r.objs, 1, "Ticker", r.selected_ticker)
                [] option = "Selected Sector" ->
                     Getitem(r.objs, 1, "Sector", r.selected_sector)
                [] option = "Selected Cluster" ->
                     Getitem(r.objs, 1, "Cluster", r.selected_cluster)
                [] OTHER -> Copy(r.objs, 1)
        d1 == Copy(d0.objs, d0.ref)
        o2 == SetYearColumn(d1.objs, d1.ref, "Year_display")
        o3 == FormatPercent(o2, d1.ref, pct_cols)
        metric == Widget("stats_metric", prev.selected_metric, stats_options[1], prev, trig)
    IN {[r EXCEPT !.filter_option = option,
                  !.objs = o3,
                  !.display_ref = d1.ref,
                  !.display_cols = DisplayCols(o3[d1.ref].columns),
                  !.selected_metric = metric,
                  !.shown = @ \cup {"Filter by:", "dataframe", "Total Records", "stats_metric",
                                    "Dashboard Features"}
                              \cup (IF StatsShown(metric, o3[1].columns)
                                    THEN {"statistics"} ELSE {})]}

\* Lines 29-419: the whole script.
Script(f, prev, trig) ==
    LET ld == load_data(f)
    IN IF ld.outcome = "none"
       THEN {[NoRun EXCEPT !.status = "not_found",
                           !.messages = ld.messages \o <<UploadMessage>>]}
       ELSE IF ld.outcome = "raised"
       THEN {[NoRun EXCEPT !.status = "raised", !.exception = ld.exception]}
       ELSE LET r0 == [NoRun EXCEPT !.status = "loaded", !.objs = <<ld.df>>,
                                    !.shown = {"Financial Performance Dashboard"}]
                a == Sidebar(r0, prev, trig)
                b == Bind(a, LAMBDA r : Tab1(r, prev, trig))
                c == Bind(b, LAMBDA r : Tab2(r, prev, trig))
                d == Bind(c, LAMBDA r : Tab3(r, prev, trig))
            IN Bind(d, LAMBDA r : Tab4(r, prev, trig))

(***************************************************************************)
(* State.  file is the CSV resource; the other variables are what the last *)
(* run of the script left: its variables and the page.  load_data is       *)
(* cached by st.cache_data and the file does not change, so every run      *)
(* gets the same load result, each time as a fresh copy.                   *)
(***************************************************************************)
VARIABLES
    file, status, messages, exception, shown, df,
    tickers, sectors, clusters,
    selected_ticker, selected_sector, selected_cluster,
    company_data, latest_data,
    sector_data, avg_by_year, cluster_counts, comparison_metric, fig_box,
    cluster_data, avg_by_sector,
    filter_option, display_df, display_cols, selected_metric

vars ==
    <<file, status, messages, exception, shown, df, tickers, sectors, clusters,
      selected_ticker, selected_sector, selected_cluster, company_data, latest_data,
      sector_data, avg_by_year, cluster_counts, comparison_metric, fig_box,
      cluster_data, avg_by_sector, filter_option, display_df, display_cols,
      selected_metric>>

\* The table a variable of the run names; NoTable when it was never assigned.
Deref(r, ref) == IF ref = 0 THEN NoTable ELSE r.objs[ref]

\* The state a finished run leaves.
Publish(r) ==
    /\ status' = r.status
    /\ messages' = r.messages
    /\ exception' = r.exception
    /\ shown' = r.shown
    /\ df' = r.objs[1]
    /\ tickers' = r.tickers
    /\ sectors' = r.sectors
    /\ clusters' = r.clusters
    /\ selected_ticker' = r.selected_ticker
    /\ selected_sector' = r.selected_sector
    /\ selected_cluster' = r.selected_cluster
    /\ company_data' = Deref(r, r.company_ref)
    /\ latest_data' = r.latest_data
    /\ sector_data' = Deref(r, r.sector_ref)
    /\ avg_by_year' = r.avg_by_year
    /\ cluster_counts' = r.cluster_counts
    /\ comparison_metric' = r.comparison_metric
    /\ fig_box' = r.fig_box
    /\ cluster_data' = Deref(r, r.cluster_ref)
    /\ avg_by_sector' = r.avg_by_sector
    /\ filter_option' = r.filter_option
    /\ display_df' = Deref(r, r.display_ref)
    /\ display_cols' = r.display_cols
    /\ selected_metric' = r.selected_metric
    /\ UNCHANGED file

\* The widget state the session holds between two runs.
Session ==
    [shown |-> shown,
     selected_ticker |-> selected_ticker,
     selected_sector |-> selected_sector,
     selected_cluster |-> selected_cluster,
     comparison_metric |-> comparison_metric,
     filter_option |-> filter_option,
     selected_metric |-> selected_metric]

Run(trig) == \E r \in Script(file, Session, trig) : Publish(r)

\* The user gives a widget of the page another value, and the script reruns.
Change(key, held, value) ==
    key \in shown /\ value # held /\ Run([widget |-> key, value |-> value])

\* Before the first run of a session.
NotRun ==
    /\ status = NoRun.status
    /\ messages = NoRun.messages
    /\ exception = NoRun.exception
    /\ shown = NoRun.shown
    /\ df = NoTable
    /\ tickers = NoRun.tickers
    /\ sectors = NoRun.sectors
    /\ clusters = NoRun.clusters
    /\ selected_ticker = NoRun.selected_ticker
    /\ selected_sector = NoRun.selected_sector
    /\ selected_cluster = NoRun.selected_cluster
    /\ company_data = NoTable
    /\ latest_data = NoRun.latest_data
    /\ sector_data = NoTable
    /\ avg_by_year = NoRun.avg_by_year
    /\ cluster_counts = NoRun.cluster_counts
    /\ comparison_metric = NoRun.comparison_metric
    /\ fig_box = NoRun.fig_box
    /\ cluster_data = NoTable
    /\ avg_by_sector = NoRun.avg_by_sector
    /\ filter_option = NoRun.filter_option
    /\ display_df = NoTable
    /\ display_cols = NoRun.display_cols
    /\ selected_metric = NoRun.selected_metric

Init == file \in Files /\ NotRun

InitCompany == file \in CompanyFiles /\ NotRun

InitSector == file \in SectorFiles /\ NotRun

\* The first run of the script in a session.
FirstRun == status = "init" /\ Run(NoTrigger)

\* A rerun that no widget change caused.
Rerun == status # "init" /\ Run(NoTrigger)

SelectCompany == \E t \in Range(tickers) : Change("Select Company:", selected_ticker, t)

SelectSector == \E s \in Range(sectors) : Change("Select Sector:", selected_sector, s)

SelectCluster == \E c \in Range(clusters) : Change("Select Cluster:", selected_cluster, c)

SelectComparisonMetric == \E m \in Range(comparison_options) : Change("sector_metric", comparison_metric, m)

SelectFilterOption == \E o \in Range(filter_options) : Change("Filter by:", filter_option, o)

SelectStatsMetric == \E m \in Range(stats_options) : Change("stats_metric", selected_metric, m)

Next ==
    \/ FirstRun
    \/ Rerun
    \/ SelectCompany
    \/ SelectSector
    \/ SelectCluster
    \/ SelectComparisonMetric
    \/ SelectFilterOption
    \/ SelectStatsMetric

\* Every session over the files of Spec.
Spec == Init /\ [][Next]_vars

\* Sessions that work the company selector, over files whose ticker and
\* year columns vary.
NextCompany ==
    \/ FirstRun
    \/ Rerun
    \/ SelectCompany

SpecCompany == InitCompany /\ [][NextCompany]_vars

\* Sessions that work the sector selector, over files whose
\* sector and cluster columns vary.
NextSector ==
    \/ FirstRun
    \/ Rerun
    \/ SelectSector

SpecSector == InitSector /\ [][NextSector]_vars

(***************************************************************************)
(* Properties.                                                             *)
(***************************************************************************)
Ran == status # "init"

\* A variable of the last run that names a table was assigned.
Assigned(t) == t.columns # {}

\* The index labels of the rows of t that satisfy Test, in the order of t.
Labels(t, Test(_)) == Column(SelectSeq(t.rows, Test), "idx")

\* C1: when the CSV is missing, load_data yields no table but the not-found
\* error, none of the four views is computed or rendered, and only the error
\* messages are on the page.
C1_MissingFileShowsOnlyError ==
    (Ran /\ ~file.exists) =>
        /\ status = "not_found"
        /\ df = NoTable
        /\ messages = <<NotFoundMessage, UploadMessage>>
        /\ exception = NoException
        /\ shown = {}
        /\ company_data = NoTable /\ sector_data = NoTable
        /\ cluster_data = NoTable /\ display_df = NoTable
        /\ latest_data = NoRow /\ display_cols = << >>

C1_Witness == Ran /\ ~file.exists /\ status = "not_found"

Unparsable(i) == ~Parsable(StrCell(file.rows[i].Year))

C3_MalformedLoadFails ==
    (Ran /\ file.exists /\ ~({"Ticker", "Name", "Sector"} \subseteq file.columns)) =>
        /\ status # "loaded"
        /\ df = NoTable
        /\ shown = {}

\* The fields the Data Explorer asks for.
ExplorerFields ==
    Range(pct_cols) \cup (Range(cols_to_show) \ {"Year_display"}) \cup {selected_metric}

\* The fields the company view reads when the company has rows.
CompanyFields ==
    {"Name"} \cup Range(margin_metrics) \cup Range(ratio_fields)
    \cup Range(wc_metrics) \cup Range(roa_fields)

\* The fields the charts of the sector and cluster views read.
SectorFields == Range(year_agg_fields)

ClusterFields ==
    Range(sector_agg_fields) \cup Range(radar_fields)
    \cup (Range(scatter_fields) \ {"Year_display"})

C5_LoadedTableReadOnly ==
    status = "loaded" =>
        /\ df = ReadAndParse(file).df
        /\ df.columns = file.columns
        /\ df.fmt = {}

C5_Witness ==
    /\ status = "loaded"
    /\ Len(df.rows) >= 2
    /\ "Year_str" \in sector_data.columns
    /\ Len(sector_data.rows) = Len(df.rows)
    /\ "Year_display" \in cluster_data.columns
    /\ display_df.fmt # {}

\* C6: filters compose: each box trace, the rows of sector_data of one
\* cluster, is exactly the rows of df, in order, that satisfy
\* Sector == selected_sector and Cluster == cluster.
C6_FiltersCompose ==
    "fig_box" \in shown =>
        \A i \in DOMAIN fig_box :
            fig_box[i].rows =
                Labels(df, LAMBDA row : /\ Eq(row.Sector, selected_sector)
                                        /\ Eq(row.Cluster, fig_box[i].name))

C6_Witness ==
    /\ "fig_box" \in shown
    /\ Len(sector_data.rows) < Len(df.rows)
    /\ \E i \in DOMAIN fig_box :
          /\ Len(fig_box[i].rows) >= 1
          /\ Len(fig_box[i].rows) < Len(sector_data.rows)

\* Every row of t is in exactly one of the groups and the groups hold
\* nothing else.
Partitions(groups, t) ==
    /\ \A k \in DOMAIN t.rows :
          Cardinality({i \in DOMAIN groups : t.rows[k].idx \in Range(groups[i].rows)}) = 1
    /\ \A i \in DOMAIN groups : Range(groups[i].rows) \subseteq Range(Column(t.rows, "idx"))

\* C7: grouping partitions the grouped table exactly, rows whose grouping
\* value is missing included: the by-year groups of sector_data, the
\* by-sector groups of cluster_data and the per-cluster box traces.
C7_GroupingPartitions ==
    /\ "fig" \in shown => Partitions(avg_by_year, sector_data)
    /\ "fig_cluster" \in shown => Partitions(avg_by_sector, cluster_data)
    /\ "fig_box" \in shown => Partitions(fig_box, sector_data)

\* The pairs of cluster_counts are in the order given by Before.
CountsOrdered(Before(_, _)) ==
    \A i, j \in DOMAIN cluster_counts : i < j => Before(cluster_counts[i], cluster_counts[j])

C9_LatestIsGreatestYear ==
    "fig1" \in shown =>
        /\ Range(Column(company_data.rows, "idx"))
               = Range(Labels(df, LAMBDA row : Eq(row.Ticker, selected_ticker)))
        /\ \A row \in Range(company_data.rows) :
              ~IsNa(row.Year) =>
                  /\ ~IsNa(latest_data.Year)
                  /\ row.Year[1] <= latest_data.Year[1]

\* The selections exist and the table has a row.
Selected == status = "loaded" /\ "Select Cluster:" \in shown /\ Len(df.rows) >= 1

\* C10 as stated: after a load of a table with a row, each selection occurs
\* in its column, so company_data, sector_data and cluster_data have a row
\* and the 'No data available' branch is not taken.
C10_SelectionsNeverEmpty ==
    Selected =>
        /\ selected_ticker \in Range(Column(df.rows, "Ticker"))
        /\ selected_sector \in Range(Column(df.rows, "Sector"))
        /\ selected_cluster \in Range(Column(df.rows, "Cluster"))
        /\ company_data.rows # << >>
        /\ "No data available for selected company." \notin shown
        /\ Assigned(sector_data) => sector_data.rows # << >>
        /\ Assigned(cluster_data) => cluster_data.rows # << >>

\* C10 as amended: each selection is a cell of its column, a missing cell
\* (NaN) included; the table filtered by a selection has a row exactly when
\* the selection is not missing, and the 'No data available' branch is taken
\* exactly when the selected ticker is missing.
C10_SelectionsFromColumns ==
    Selected =>
        /\ selected_ticker \in Range(Column(df.rows, "Ticker"))
        /\ selected_sector \in Range(Column(df.rows, "Sector"))
        /\ selected_cluster \in Range(Column(df.rows, "Cluster"))
        /\ company_data.rows # << >> <=> ~IsNa(selected_ticker)
        /\ "No data available for selected company." \in shown <=> IsNa(selected_ticker)
        /\ Assigned(sector_data) => (sector_data.rows # << >> <=> ~IsNa(selected_sector))
        /\ Assigned(cluster_data) => (cluster_data.rows # << >> <=> ~IsNa(selected_cluster))

C10_Witness ==
    /\ Selected
    /\ "No data available for selected company." \in shown
    /\ IsNa(selected_sector) /\ Assigned(sector_data)
    /\ IsNa(selected_cluster) /\ Assigned(cluster_data)

=============================================================================
